---- MODULE Spec2Model ----
\* Model of ignite::odbc::Connection (modules/platforms/cpp/odbc/src/connection.cpp):
\* connection life cycle, handshake, length-prefixed framing over a socket with
\* partial transfers, and the diagnostic records the public calls leave behind.
EXTENDS Integers, Sequences, FiniteSets, TLC

VARIABLES
    connected,  \* Connection::connected
    sockOpen,   \* state of Connection::socket (open after Connect, closed after Close)
    config,     \* Connection::config
    parserVer,  \* protocol version held by Connection::parser
    inWire,     \* bytes the peer has written that the socket has not yet delivered
    diag,       \* diagnostic records of the connection (SqlState of each record)
    last,       \* what the last call did: its arguments, result and socket calls
    session,    \* history: an Establish returned success and no Close() ran since
    inflight    \* history: payloads sent and echoed by a loopback peer, oldest first

vars == <<connected, sockOpen, config, parserVer, inWire, diag, last, session, inflight>>

-----------------------------------------------------------------------------
\* Bounds of the model.

\* Longest payload handed to Send.
MaxPayload == 2

\* Most bytes a peer leaves buffered in the socket between calls.
MaxWire == 6

\* Most bytes a loopback peer has echoed and not yet seen received.
MaxEcho == 10

\* Longest buffer handed to SendAll and ReceiveAll when their loops are run
\* one socket call at a time.
MaxBuffer == 4

\* Width, in bits, that stands for the 32 bits of int32_t where Send is run on
\* lengths alone; size_t is one bit wider.
IntBits == 5

\* Byte values used in payloads.
PayloadBytes == {7, 255}

-----------------------------------------------------------------------------
\* Bytes and the frame header.

\* sizeof(OdbcProtocolHeader)
HeaderSize == 4

Min(a, b) == IF a < b THEN a ELSE b

RECURSIVE SeqsUpTo(_, _)
SeqsUpTo(S, n) ==
    IF n = 0 THEN {<<>>}
    ELSE SeqsUpTo(S, n - 1)
         \cup {Append(s, b) : s \in {t \in SeqsUpTo(S, n - 1) : Len(t) = n - 1}, b \in S}

Payloads == SeqsUpTo(PayloadBytes, MaxPayload)

PlainPayloads == SeqsUpTo({7}, MaxPayload)

\* The four bytes of an int32 in memory (two's complement, least significant
\* byte first), as the cast of the buffer to OdbcProtocolHeader* lays them out.
HeaderBytes(v) ==
    << v % 256, (v \div 256) % 256, (v \div 65536) % 256, (v \div 16777216) % 256 >>

\* The int32 read back from four bytes of memory: the top byte carries the sign.
HeaderValue(b) ==
    b[1] + 256 * b[2] + 65536 * b[3]
        + 16777216 * (IF b[4] >= 128 THEN b[4] - 256 ELSE b[4])

Frame(payload) == HeaderBytes(Len(payload)) \o payload

-----------------------------------------------------------------------------
\* The transport socket. Each single-shot send or receive returns a positive
\* count no larger than what was asked for (and, for a receive, than what the peer
\* has written), or zero, or a negative value. SockScripts(n, avail, split) is
\* the set of result sequences a transfer of n bytes can meet. With split "every"
\* the socket may move any number of bytes in each call; with "first" its first
\* call moves one byte or all that can flow, and ("whole") every later call all
\* that can flow. A closed socket fails its first call.

SockFailures == {-1, 0}

ChunkSizes(most, split) ==
    IF split = "every" THEN 1..most
    ELSE IF split = "first" THEN {r \in {1, most} : 1 <= r /\ r <= most}
    ELSE {r \in {most} : 1 <= r}

RECURSIVE SockScripts(_, _, _)
SockScripts(n, avail, split) ==
    IF n = 0 THEN {<<>>}
    ELSE {<<r>> : r \in SockFailures}
         \cup UNION { {<<r>> \o s : s \in SockScripts(n - r, avail - r,
                                      IF split = "every" THEN "every" ELSE "whole")}
                      : r \in ChunkSizes(Min(n, avail), split) }

ClosedSocketScripts == {<<-1>>}

-----------------------------------------------------------------------------
\* Connection::SendAll: the loop over socket.Send.

RECURSIVE SendAllFrom_NoClose(_, _, _, _)
SendAllFrom_NoClose(len, sent, script, calls) ==
    IF sent = len \/ script[calls + 1] <= 0
    THEN [ret |-> sent, closed |-> FALSE,
          calls |-> IF sent = len THEN calls ELSE calls + 1]
    ELSE SendAllFrom_NoClose(len, sent + script[calls + 1], script, calls + 1)

RECURSIVE SendAllFrom(_, _, _, _)
SendAllFrom(len, sent, script, calls) ==
    IF sent = len
    THEN [ret |-> sent, closed |-> FALSE, calls |-> calls]
    ELSE IF script[calls + 1] <= 0
    THEN [ret |-> sent, closed |-> TRUE, calls |-> calls + 1]
    ELSE SendAllFrom(len, sent + script[calls + 1], script, calls + 1)

SendAll(data, script) == SendAllFrom(Len(data), 0, script, 0)

\* Connection::Send. exc is the OdbcError thrown ("none" when Send returns), wire
\* the bytes the socket accepted.
NotSent == [exc |-> "S08003_NOT_CONNECTED", closed |-> FALSE, sends |-> 0, wire |-> <<>>]

SendOutcome(msgBuf, len, r) ==
    [exc |-> IF r.ret # len + HeaderSize THEN "S08S01_LINK_FAILURE" ELSE "none",
     closed |-> r.closed, sends |-> r.calls, wire |-> SubSeq(msgBuf, 1, r.ret)]

SendFrame(msgBuf, len, script) == SendOutcome(msgBuf, len, SendAll(msgBuf, script))

\* Lines 202-210: the buffer of header and payload.
SendBuffer_LengthOfFrame(data) == HeaderBytes(Len(data) + HeaderSize) \o data

SendBuffer(data) == HeaderBytes(Len(data)) \o data

Send_NoConnectedCheck(isConnected, data, script) ==
    SendFrame(SendBuffer(data), Len(data), script)

Send(isConnected, data, script) ==
    IF ~isConnected THEN NotSent
    ELSE SendFrame(SendBuffer(data), Len(data), script)

-----------------------------------------------------------------------------
\* Connection::ReceiveAll: the loop over socket.Receive. stream holds the bytes the
\* peer has written; data is what landed in the destination buffer.

RECURSIVE ReceiveAllFrom(_, _, _, _)
ReceiveAllFrom(len, remain, script, calls) ==
    IF remain = 0
    THEN [ret |-> len, closed |-> FALSE, calls |-> calls]
    ELSE IF script[calls + 1] <= 0
    THEN [ret |-> len - remain, closed |-> TRUE, calls |-> calls + 1]
    ELSE ReceiveAllFrom(len, remain - script[calls + 1], script, calls + 1)

ReceiveAllInto(stream, r) ==
    [ret |-> r.ret, closed |-> r.closed, calls |-> r.calls,
     data |-> SubSeq(stream, 1, r.ret),
     rest |-> SubSeq(stream, r.ret + 1, Len(stream))]

ReceiveAll(stream, len, script) ==
    ReceiveAllInto(stream, ReceiveAllFrom(len, len, script, 0))

-----------------------------------------------------------------------------
\* Connection::Receive. msg0 is the caller's vector on entry; msg is the vector
\* when Receive returns or throws; rest is what stays unread in the socket.

NoReceive(exc, msg0, stream) ==
    [exc |-> exc, closed |-> FALSE, msg |-> msg0, rest |-> stream,
     hdrRecvs |-> 0, bodyRecvs |-> 0, hdrRead |-> FALSE, hdrLen |-> 0, bodyRet |-> 0]

\* Lines 269-278: the vector was resized to len and filled from its start; a
\* short read cuts it back to the bytes received.
BodyOutcome_DropPartial(h, len, b) ==
    [exc |-> IF b.ret # len THEN "S08S01_LINK_FAILURE" ELSE "none",
     closed |-> b.closed,
     msg |-> IF b.ret # len THEN <<>> ELSE b.data,
     rest |-> b.rest, hdrRecvs |-> h.calls, bodyRecvs |-> b.calls,
     hdrRead |-> TRUE, hdrLen |-> len, bodyRet |-> b.ret]

BodyOutcome(h, len, b) ==
    [exc |-> IF b.ret # len THEN "S08S01_LINK_FAILURE" ELSE "none",
     closed |-> b.closed,
     msg |-> SubSeq(b.data, 1, IF b.ret # len THEN b.ret ELSE len),
     rest |-> b.rest, hdrRecvs |-> h.calls, bodyRecvs |-> b.calls,
     hdrRead |-> TRUE, hdrLen |-> len, bodyRet |-> b.ret]

\* Lines 257-278: the header has been read whole and holds len.
HeaderOutcome(h, len, exc, closed) ==
    [exc |-> exc, closed |-> closed, msg |-> <<>>, rest |-> h.rest,
     hdrRecvs |-> h.calls, bodyRecvs |-> 0, hdrRead |-> TRUE, hdrLen |-> len,
     bodyRet |-> 0]

ReceiveFramed_NoNegativeCheck(h, len, bs) ==
    IF len <= 0 THEN HeaderOutcome(h, len, "none", FALSE)
    ELSE BodyOutcome(h, len, ReceiveAll(h.rest, len, bs))

ReceiveFramed_ZeroIsError(h, len, bs) ==
    IF len <= 0 THEN HeaderOutcome(h, len, "S08S01_LINK_FAILURE", TRUE)
    ELSE BodyOutcome(h, len, ReceiveAll(h.rest, len, bs))

ReceiveFramed(h, len, bs) ==
    IF len < 0 THEN HeaderOutcome(h, len, "S08S01_LINK_FAILURE", TRUE)
    ELSE IF len = 0 THEN HeaderOutcome(h, len, "none", FALSE)
    ELSE BodyOutcome(h, len, ReceiveAll(h.rest, len, bs))

\* Lines 248-255: the vector is cleared and the header read.
ReceiveHeader(h, bs) ==
    IF h.ret # HeaderSize
    THEN [NoReceive("S08S01_LINK_FAILURE", <<>>, h.rest)
            EXCEPT !.closed = h.closed, !.hdrRecvs = h.calls]
    ELSE ReceiveFramed(h, HeaderValue(h.data), bs)

Receive(isConnected, msg0, stream, hs, bs) ==
    IF ~isConnected THEN NoReceive("S08003_NOT_CONNECTED", msg0, stream)
    ELSE ReceiveHeader(ReceiveAll(stream, HeaderSize, hs), bs)

\* The results the socket can give to the body read that follows header read h.
BodyScriptsAfter(h, split) ==
    IF h.closed THEN {<<>>}
    ELSE IF HeaderValue(h.data) > 0
    THEN SockScripts(HeaderValue(h.data), Len(h.rest), split)
    ELSE {<<>>}

BodyScripts(isOpen, stream, hs, split) ==
    IF ~isOpen THEN {<<>>}
    ELSE BodyScriptsAfter(ReceiveAll(stream, HeaderSize, hs), split)

-----------------------------------------------------------------------------
\* Configuration, protocol versions and the handshake messages.

SupportedVersions == {"2.1.0", "2.1.5"}

\* Configurations the callers pass: two supported versions, one unsupported
\* version and one whose version cannot be read (GetProtocolVersion throws).
Configs == [ver : SupportedVersions \cup {"1.6.0", "malformed"}]

DefaultConfig == [ver |-> "2.1.5"]

ConfigReadable(cfg) == cfg.ver # "malformed"

IsSupported(ver) == ver \in SupportedVersions

\* HandshakeRequest body: one byte naming the requested version.
EncodeHandshakeRequest(cfg) == << IF cfg.ver = "2.1.0" THEN 1 ELSE 2 >>

\* HandshakeResponse body: <<1>> accepts; <<0, serverVersion>> followed by the
\* bytes of an error text (none for an empty text) rejects; anything shorter
\* cannot be decoded (the reader throws IgniteError).
NoResponse == [decoded |-> FALSE, accepted |-> FALSE, currentVer |-> 0, error |-> <<>>]

DecodeHandshakeResponse(body) ==
    IF Len(body) = 0 \/ (body[1] # 1 /\ Len(body) < 2)
    THEN NoResponse
    ELSE IF body[1] = 1
    THEN [decoded |-> TRUE, accepted |-> TRUE, currentVer |-> 0, error |-> <<>>]
    ELSE [decoded |-> TRUE, accepted |-> FALSE, currentVer |-> body[2],
          error |-> SubSeq(body, 3, Len(body))]

\* What a peer writes in answer to a handshake request: acceptance, rejection
\* without and with an error text, an empty frame, a negative length, half a
\* header, a body cut short, and an acceptance followed by the first byte of a
\* further frame.
HandshakeReplies ==
    { Frame(<<1>>), Frame(<<0, 2>>), Frame(<<0, 3, 9>>), Frame(<<>>), HeaderBytes(-1),
      <<1, 0>>, HeaderBytes(2) \o <<0>>, Frame(<<1>>) \o <<1>> }

-----------------------------------------------------------------------------
\* Socket traffic of one call, as `last` records it.

\* msg is the vector Receive filled inside SyncMessage, text the parts of the
\* message of a rejection record.
NoText == [hasInfo |-> FALSE, info |-> <<>>, nodeVer |-> 0, driverVer |-> "none"]

NoIo ==
    [closed |-> FALSE, sends |-> 0, sentBytes |-> 0, hdrRecvs |-> 0, bodyRecvs |-> 0,
     hdrRead |-> FALSE, hdrLen |-> 0, bodyRet |-> 0, rest |-> <<>>, msg |-> <<>>,
     text |-> NoText]

SendIo(s) ==
    [NoIo EXCEPT !.closed = s.closed, !.sends = s.sends, !.sentBytes = Len(s.wire)]

ExchangeIo(s, r) ==
    [closed |-> r.closed, sends |-> s.sends, sentBytes |-> Len(s.wire),
     hdrRecvs |-> r.hdrRecvs, bodyRecvs |-> r.bodyRecvs, hdrRead |-> r.hdrRead,
     hdrLen |-> r.hdrLen, bodyRet |-> r.bodyRet, rest |-> r.rest, msg |-> r.msg,
     text |-> NoText]

\* Connection::SyncMessage: encode, Send, Receive, decode. reply is what the peer
\* writes once it has the whole request.
SyncDecoded(s, r, rsp) ==
    [exc |-> IF rsp.decoded THEN "none" ELSE "IgniteError",
     accepted |-> rsp.accepted, rsp |-> rsp, io |-> ExchangeIo(s, r)]

SyncReceived(s, r) ==
    IF r.exc # "none"
    THEN [exc |-> r.exc, accepted |-> FALSE, rsp |-> NoResponse, io |-> ExchangeIo(s, r)]
    ELSE SyncDecoded(s, r, DecodeHandshakeResponse(r.msg))

SyncSent(s, reply, hs, bs) ==
    IF s.exc # "none"
    THEN [exc |-> s.exc, accepted |-> FALSE, rsp |-> NoResponse, io |-> SendIo(s)]
    ELSE SyncReceived(s, Receive(TRUE, <<>>, reply, hs, bs))

SyncMessage(body, ss, reply, hs, bs) ==
    SyncSent(Send(TRUE, body, ss), reply, hs, bs)

\* Connection::MakeRequestHandshake.
HandshakeError(state, path, io) ==
    [res |-> "AI_ERROR", diag |-> <<state>>, path |-> path, io |-> io]

\* Lines 470-481: the message of the record of a rejected handshake holds the
\* node's error text where it is not empty, the node's version and the protocol
\* version of the stored configuration.
RejectionMessage_NoInfo(rsp, driverVer) ==
    [hasInfo |-> FALSE, info |-> <<>>, nodeVer |-> rsp.currentVer, driverVer |-> driverVer]

RejectionMessage(rsp, driverVer) ==
    [hasInfo |-> rsp.error # <<>>, info |-> rsp.error, nodeVer |-> rsp.currentVer,
     driverVer |-> driverVer]

Rejected(cfg, m) ==
    HandshakeError("S08004_CONNECTION_REJECTED", "rejected",
                   [m.io EXCEPT !.text = RejectionMessage(m.rsp, cfg.ver)])

\* Lines 449-486: the exchange is over, with m what SyncMessage threw or returned.
HandshakeOutcome_TrustsPeer(cfg, m) ==
    IF m.exc = "IgniteError"
    THEN HandshakeError("S08004_CONNECTION_REJECTED", "decodeError", m.io)
    ELSE IF m.exc # "none"
    THEN HandshakeError(m.exc, "ioError", m.io)
    ELSE [res |-> "AI_SUCCESS", diag |-> <<>>,
          path |-> IF m.accepted THEN "accepted" ELSE "rejected", io |-> m.io]

HandshakeOutcome_AllRejected(cfg, m) ==
    IF m.exc # "none"
    THEN HandshakeError("S08004_CONNECTION_REJECTED",
                        IF m.exc = "IgniteError" THEN "decodeError" ELSE "ioError", m.io)
    ELSE IF ~m.accepted
    THEN Rejected(cfg, m)
    ELSE [res |-> "AI_SUCCESS", diag |-> <<>>, path |-> "accepted", io |-> m.io]

HandshakeOutcome(cfg, m) ==
    IF m.exc = "IgniteError"
    THEN HandshakeError("S08004_CONNECTION_REJECTED", "decodeError", m.io)
    ELSE IF m.exc # "none"
    THEN HandshakeError(m.exc, "ioError", m.io)
    ELSE IF ~m.accepted
    THEN Rejected(cfg, m)
    ELSE [res |-> "AI_SUCCESS", diag |-> <<>>, path |-> "accepted", io |-> m.io]

MakeRequestHandshake_SkipVersionCheck(cfg, ss, reply, hs, bs) ==
    IF ~ConfigReadable(cfg)
    THEN HandshakeError("S01S00_INVALID_CONNECTION_STRING_ATTRIBUTE", "invalidConfig", NoIo)
    ELSE HandshakeOutcome(cfg, SyncMessage(EncodeHandshakeRequest(cfg), ss, reply, hs, bs))

MakeRequestHandshake(cfg, ss, reply, hs, bs) ==
    IF ~ConfigReadable(cfg)
    THEN HandshakeError("S01S00_INVALID_CONNECTION_STRING_ATTRIBUTE", "invalidConfig", NoIo)
    ELSE IF ~IsSupported(cfg.ver)
    THEN HandshakeError("S01S00_INVALID_CONNECTION_STRING_ATTRIBUTE", "unsupported", NoIo)
    ELSE HandshakeOutcome(cfg, SyncMessage(EncodeHandshakeRequest(cfg), ss, reply, hs, bs))

-----------------------------------------------------------------------------
\* The connection object and its life cycle.

Conn == [connected |-> connected, sockOpen |-> sockOpen,
         config |-> config, parserVer |-> parserVer]

\* Connection::Close
Close_SocketOnly(c) == [c EXCEPT !.sockOpen = FALSE]

Close(c) == [c EXCEPT !.sockOpen = FALSE, !.connected = FALSE]

\* Lines 138-145: the socket is connected and h is what MakeRequestHandshake returned.
AfterHandshake_NoClose(c, h) ==
    IF h.res = "AI_ERROR"
    THEN [c |-> c, res |-> h.res, diag |-> h.diag, path |-> h.path,
          closed |-> h.io.closed, io |-> h.io]
    ELSE [c |-> [c EXCEPT !.parserVer = c.config.ver], res |-> h.res,
          diag |-> h.diag, path |-> h.path, closed |-> h.io.closed, io |-> h.io]

AfterHandshake_AlwaysSetsVersion(c, h) ==
    IF h.res = "AI_ERROR"
    THEN [c |-> [Close(c) EXCEPT !.parserVer = c.config.ver], res |-> h.res,
          diag |-> h.diag, path |-> h.path, closed |-> TRUE, io |-> h.io]
    ELSE [c |-> [c EXCEPT !.parserVer = c.config.ver], res |-> h.res,
          diag |-> h.diag, path |-> h.path, closed |-> h.io.closed, io |-> h.io]

AfterHandshake(c, h) ==
    IF h.res = "AI_ERROR"
    THEN [c |-> Close(c), res |-> h.res, diag |-> h.diag, path |-> h.path,
          closed |-> TRUE, io |-> h.io]
    ELSE [c |-> [c EXCEPT !.parserVer = c.config.ver], res |-> h.res,
          diag |-> h.diag, path |-> h.path, closed |-> h.io.closed, io |-> h.io]

\* Connection::InternalEstablish(const config::Configuration cfg). connOk is the
\* result of socket.Connect.
InternalEstablish(c, cfg, connOk, ss, reply, hs, bs) ==
    IF c.connected
    THEN [c |-> [c EXCEPT !.config = cfg], res |-> "AI_ERROR",
          diag |-> <<"S08002_ALREADY_CONNECTED">>, path |-> "alreadyConnected",
          closed |-> FALSE, io |-> NoIo]
    ELSE IF ~connOk
    THEN [c |-> [c EXCEPT !.config = cfg, !.connected = FALSE, !.sockOpen = FALSE],
          res |-> "AI_ERROR", diag |-> <<"S08001_CANNOT_CONNECT">>,
          path |-> "connectFailed", closed |-> FALSE, io |-> NoIo]
    ELSE AfterHandshake([c EXCEPT !.config = cfg, !.connected = TRUE, !.sockOpen = TRUE],
                        MakeRequestHandshake(cfg, ss, reply, hs, bs))

\* Connection::InternalRelease
InternalRelease_NoCheck(c) ==
    [c |-> Close(c), res |-> "AI_SUCCESS", diag |-> <<>>, closed |-> TRUE]

InternalRelease(c) ==
    IF ~c.connected
    THEN [c |-> c, res |-> "AI_ERROR", diag |-> <<"S08003_NOT_CONNECTED">>, closed |-> FALSE]
    ELSE [c |-> Close(c), res |-> "AI_SUCCESS", diag |-> <<>>, closed |-> TRUE]

-----------------------------------------------------------------------------
\* Attribute, transaction and info calls.

Attributes == {"SQL_ATTR_CONNECTION_DEAD", "SQL_ATTR_AUTOCOMMIT"}

\* Connection::InternalGetAttribute. val is what is written to *buf.
InternalGetAttribute_AlwaysAlive(c, attr, bufIsNull) ==
    IF bufIsNull
    THEN [res |-> "AI_ERROR", diag |-> <<"SHY000_GENERAL_ERROR">>, val |-> "none"]
    ELSE IF attr = "SQL_ATTR_CONNECTION_DEAD"
    THEN [res |-> "AI_SUCCESS", diag |-> <<>>, val |-> "SQL_CD_FALSE"]
    ELSE [res |-> "AI_ERROR", diag |-> <<"SHYC00_OPTIONAL_FEATURE_NOT_IMPLEMENTED">>,
          val |-> "none"]

InternalGetAttribute(c, attr, bufIsNull) ==
    IF bufIsNull
    THEN [res |-> "AI_ERROR", diag |-> <<"SHY000_GENERAL_ERROR">>, val |-> "none"]
    ELSE IF attr = "SQL_ATTR_CONNECTION_DEAD"
    THEN [res |-> "AI_SUCCESS", diag |-> <<>>,
          val |-> IF c.connected THEN "SQL_CD_FALSE" ELSE "SQL_CD_TRUE"]
    ELSE [res |-> "AI_ERROR", diag |-> <<"SHYC00_OPTIONAL_FEATURE_NOT_IMPLEMENTED">>,
          val |-> "none"]

\* Connection::InternalSetAttribute
InternalSetAttribute(attr) ==
    IF attr = "SQL_ATTR_CONNECTION_DEAD"
    THEN [res |-> "AI_ERROR", diag |-> <<"SHY092_OPTION_TYPE_OUT_OF_RANGE">>]
    ELSE [res |-> "AI_ERROR", diag |-> <<"SHYC00_OPTIONAL_FEATURE_NOT_IMPLEMENTED">>]

\* Connection::InternalTransactionCommit
InternalTransactionCommit == [res |-> "AI_SUCCESS", diag |-> <<>>]

\* Connection::InternalTransactionRollback
InternalTransactionRollback_NoRecord == [res |-> "AI_ERROR", diag |-> <<>>]

InternalTransactionRollback ==
    [res |-> "AI_ERROR", diag |-> <<"SHYC00_OPTIONAL_FEATURE_NOT_IMPLEMENTED">>]

\* Connection::InternalCreateStatement. isNull: the new-expression gave a null
\* pointer (an allocator that returns null instead of throwing).
InternalCreateStatement(isNull) ==
    IF isNull THEN [res |-> "AI_ERROR", diag |-> <<"SHY001_MEMORY_ALLOCATION">>]
    ELSE [res |-> "AI_SUCCESS", diag |-> <<>>]

\* Connection::InternalGetInfo. infoRes is what ConnectionInfo::GetInfo returns.
InternalGetInfo(infoRes) ==
    [res |-> infoRes,
     diag |-> IF infoRes # "AI_SUCCESS"
              THEN <<"SHYC00_OPTIONAL_FEATURE_NOT_IMPLEMENTED">> ELSE <<>>]

-----------------------------------------------------------------------------
\* State machine.

LastRec(op, res, path, len, val, msg0, msg, io) ==
    [op |-> op, res |-> res, path |-> path, len |-> len, val |-> val,
     msg0 |-> msg0, msg |-> msg,
     closed |-> io.closed, sends |-> io.sends, sentBytes |-> io.sentBytes,
     hdrRecvs |-> io.hdrRecvs, bodyRecvs |-> io.bodyRecvs,
     hdrRead |-> io.hdrRead, hdrLen |-> io.hdrLen, bodyRet |-> io.bodyRet,
     text |-> io.text]

SetConn(c) ==
    /\ connected' = c.connected
    /\ sockOpen' = c.sockOpen
    /\ config' = c.config
    /\ parserVer' = c.parserVer

\* Connection::Connection()
Init ==
    /\ connected = FALSE
    /\ sockOpen = FALSE
    /\ config = DefaultConfig
    /\ parserVer = "unset"
    /\ inWire = <<>>
    /\ diag = <<>>
    /\ last = LastRec("Connection", "none", "-", 0, "none", <<>>, <<>>, NoIo)
    /\ session = FALSE
    /\ inflight = <<>>

\* A call that only reports: IGNITE_ODBC_API_CALL resets the diagnostic records,
\* runs the internal call and keeps the records it added.
Report(op, r, val) ==
    /\ diag' = r.diag
    /\ last' = LastRec(op, r.res, "-", 0, val, <<>>, <<>>, NoIo)
    /\ UNCHANGED <<connected, sockOpen, config, parserVer, inWire, session, inflight>>

\* The same for the attribute calls; `last` also keeps the attribute asked for
\* and, in len, the number of buffers handed in (0 for a null buffer).
ReportAttribute(op, attr, buffers, r, val) ==
    /\ diag' = r.diag
    /\ last' = LastRec(op, r.res, attr, buffers, val, <<>>, <<>>, NoIo)
    /\ UNCHANGED <<connected, sockOpen, config, parserVer, inWire, session, inflight>>

\* Connection::Establish(const config::Configuration cfg)
Established(r) ==
    /\ SetConn(r.c)
    /\ inWire' = IF connected THEN inWire
                 ELSE IF r.c.connected THEN r.io.rest ELSE <<>>
    /\ diag' = r.diag
    /\ last' = LastRec("Establish", r.res, r.path, 0, "none", <<>>, r.io.msg, r.io)
    /\ session' = IF r.res = "AI_SUCCESS" THEN TRUE
                  ELSE IF r.closed THEN FALSE ELSE session
    /\ UNCHANGED inflight

\* The inputs of an Establish: the configuration, whether the socket connects,
\* and, as far as the handshake gets, the socket results and the peer's reply.
Talks(cfg, connOk) ==
    ~connected /\ connOk /\ ConfigReadable(cfg) /\ IsSupported(cfg.ver)

\* Where the call does not get to talk, the socket results it would have met are
\* fixed to one well-behaved run (every call moves all bytes, the peer accepts).
RequestScripts(cfg, connOk) ==
    IF Talks(cfg, connOk)
    THEN SockScripts(HeaderSize + Len(EncodeHandshakeRequest(cfg)),
                     HeaderSize + Len(EncodeHandshakeRequest(cfg)), "first")
    ELSE {<<HeaderSize + Len(EncodeHandshakeRequest(cfg))>>}

Answered(cfg, connOk, ss) ==
    Talks(cfg, connOk) /\ ~SendAll(SendBuffer(EncodeHandshakeRequest(cfg)), ss).closed

Replies(answered) == IF answered THEN HandshakeReplies ELSE {Frame(<<1>>)}

ReplyHeaderScripts(answered, reply) ==
    IF answered THEN SockScripts(HeaderSize, Len(reply), "first") ELSE {<<HeaderSize>>}

ReplyBodyScripts(answered, reply, hs) ==
    IF answered THEN BodyScripts(TRUE, reply, hs, "first") ELSE {<<1>>}

EstablishTalking(cfg, connOk, ss, answered) ==
    \E reply \in Replies(answered) :
        \E hs \in ReplyHeaderScripts(answered, reply) :
            \E bs \in ReplyBodyScripts(answered, reply, hs) :
                Established(InternalEstablish(Conn, cfg, connOk, ss, reply, hs, bs))

Establish ==
    \E cfg \in Configs, connOk \in (IF connected THEN {TRUE} ELSE BOOLEAN) :
        \E ss \in RequestScripts(cfg, connOk) :
            EstablishTalking(cfg, connOk, ss, Answered(cfg, connOk, ss))

\* Connection::Establish(const std::string&) with a string that cannot be parsed.
EstablishUnparsable ==
    /\ diag' = <<"SHY000_GENERAL_ERROR">>
    /\ last' = LastRec("Establish", "AI_ERROR", "parseError", 0, "none", <<>>, <<>>, NoIo)
    /\ UNCHANGED <<connected, sockOpen, config, parserVer, inWire, session, inflight>>

\* Connection::Release
Released(r) ==
    /\ SetConn(r.c)
    /\ inWire' = IF r.closed THEN <<>> ELSE inWire
    /\ diag' = r.diag
    /\ last' = LastRec("Release", r.res, "-", 0, "none", <<>>, <<>>,
                       [NoIo EXCEPT !.closed = r.closed])
    /\ session' = IF r.closed THEN FALSE ELSE session
    /\ UNCHANGED inflight

Release == Released(InternalRelease(Conn))

\* Connection::Send called by the statement layer. With a loopback peer every
\* byte the socket accepted comes back on the receiving side.
Sent(data, s, loopback) ==
    /\ SetConn(IF s.closed THEN Close(Conn) ELSE Conn)
    /\ inWire' = IF s.closed THEN <<>>
                 ELSE IF loopback THEN inWire \o s.wire ELSE inWire
    /\ last' = LastRec("Send", s.exc, "-", Len(data), "none", <<>>, <<>>, SendIo(s))
    /\ session' = IF s.closed THEN FALSE ELSE session
    /\ inflight' = IF s.closed THEN <<>>
                   ELSE IF loopback /\ s.exc = "none" THEN Append(inflight, data)
                   ELSE inflight
    /\ UNCHANGED diag

SendScripts(data, split) ==
    IF sockOpen
    THEN SockScripts(Len(data) + HeaderSize, Len(data) + HeaderSize, split)
    ELSE ClosedSocketScripts

CallSend ==
    \E data \in PlainPayloads : \E script \in SendScripts(data, "first") :
        Sent(data, Send(connected, data, script), FALSE)

\* Connection::Receive called by the statement layer.
Received(msg0, r, loopback) ==
    /\ SetConn(IF r.closed THEN Close(Conn) ELSE Conn)
    /\ inWire' = IF r.closed THEN <<>> ELSE r.rest
    /\ last' = LastRec("Receive", r.exc, "-", 0, "none", msg0, r.msg,
                       [NoIo EXCEPT !.closed = r.closed, !.hdrRecvs = r.hdrRecvs,
                                    !.bodyRecvs = r.bodyRecvs, !.hdrRead = r.hdrRead,
                                    !.hdrLen = r.hdrLen, !.bodyRet = r.bodyRet])
    /\ session' = IF r.closed THEN FALSE ELSE session
    /\ inflight' = IF r.closed \/ inflight = <<>> THEN <<>>
                   ELSE IF loopback /\ r.exc = "none" THEN Tail(inflight)
                   ELSE inflight
    /\ UNCHANGED diag

HeaderScripts(split) ==
    IF sockOpen THEN SockScripts(HeaderSize, Len(inWire), split)
    ELSE ClosedSocketScripts

\* The vector the caller hands in: empty, or still holding an earlier message.
CallerVectors == {<<>>, <<7>>}

CallReceive ==
    \E msg0 \in CallerVectors : \E hs \in HeaderScripts("first") :
        \E bs \in BodyScripts(sockOpen, inWire, hs, "first") :
            Received(msg0, Receive(connected, msg0, inWire, hs, bs), FALSE)

\* What a peer writes on an open connection: whole frames, a negative length,
\* and pieces of a header or body.
PeerChunks ==
    {Frame(p) : p \in PlainPayloads}
        \cup {HeaderBytes(-1), HeaderBytes(2) \o <<7>>, <<1, 0>>}

PeerDeliver ==
    /\ sockOpen
    /\ \E chunk \in PeerChunks :
        /\ Len(inWire) + Len(chunk) <= MaxWire
        /\ inWire' = inWire \o chunk
    /\ last' = LastRec("PeerDeliver", "none", "-", 0, "none", <<>>, <<>>, NoIo)
    /\ UNCHANGED <<connected, sockOpen, config, parserVer, diag, session, inflight>>

GetAttributeOf(attr, bufIsNull, r) ==
    ReportAttribute("GetAttribute", attr, IF bufIsNull THEN 0 ELSE 1, r, r.val)

GetAttribute ==
    \E attr \in Attributes, bufIsNull \in BOOLEAN :
        GetAttributeOf(attr, bufIsNull, InternalGetAttribute(Conn, attr, bufIsNull))

SetAttribute ==
    \E attr \in Attributes :
        ReportAttribute("SetAttribute", attr, 1, InternalSetAttribute(attr), "none")

TransactionCommit == Report("TransactionCommit", InternalTransactionCommit, "none")

TransactionRollback == Report("TransactionRollback", InternalTransactionRollback, "none")

GetInfo ==
    \E infoRes \in {"AI_SUCCESS", "AI_ERROR"} :
        Report("GetInfo", InternalGetInfo(infoRes), "none")

CreateStatement ==
    \E isNull \in BOOLEAN :
        Report("CreateStatement", InternalCreateStatement(isNull), "none")

Next ==
    \/ Establish
    \/ EstablishUnparsable
    \/ Release
    \/ CallSend
    \/ CallReceive
    \/ PeerDeliver
    \/ GetAttribute
    \/ SetAttribute
    \/ TransactionCommit
    \/ TransactionRollback
    \/ GetInfo
    \/ CreateStatement

Spec == Init /\ [][Next]_vars

-----------------------------------------------------------------------------
\* Framing over a loopback peer: the connection has been established (the state
\* an accepted handshake leaves), and whatever the socket accepts from Send the
\* peer writes back, so that Receive decodes the frames Send encoded. The socket
\* may split each transfer in every possible way.

EstablishedConn ==
    InternalEstablish([connected |-> FALSE, sockOpen |-> FALSE,
                       config |-> DefaultConfig, parserVer |-> "unset"],
                      DefaultConfig, TRUE, <<HeaderSize + 1>>, Frame(<<1>>),
                      <<HeaderSize>>, <<1>>)

InitLoop ==
    /\ connected = EstablishedConn.c.connected
    /\ sockOpen = EstablishedConn.c.sockOpen
    /\ config = EstablishedConn.c.config
    /\ parserVer = EstablishedConn.c.parserVer
    /\ inWire = EstablishedConn.io.rest
    /\ diag = EstablishedConn.diag
    /\ last = LastRec("Establish", EstablishedConn.res, EstablishedConn.path, 0, "none",
                      <<>>, EstablishedConn.io.msg, EstablishedConn.io)
    /\ session = TRUE
    /\ inflight = <<>>

LoopSend ==
    \E data \in Payloads :
        /\ Len(inWire) + HeaderSize + Len(data) <= MaxEcho
        /\ \E script \in SendScripts(data, "every") :
            Sent(data, Send(connected, data, script), TRUE)

LoopReceive ==
    \E hs \in HeaderScripts("every") :
        \E bs \in BodyScripts(sockOpen, inWire, hs, "every") :
            Received(<<>>, Receive(connected, <<>>, inWire, hs, bs), TRUE)

NextLoop == LoopSend \/ LoopReceive

SpecLoop == InitLoop /\ [][NextLoop]_vars

-----------------------------------------------------------------------------
\* The loops of SendAll and ReceiveAll, one socket call per step. Here `last` is
\* the running call: its buffer length, the bytes moved so far, the socket calls
\* made and their results, and, once it has returned, the value returned. Each
\* socket call returns a positive count no larger than what it was asked for, or
\* zero, or a negative value.

SockResults(asked) == SockFailures \cup 1..asked

IoIdle ==
    [op |-> "none", pc |-> "idle", len |-> 0, moved |-> 0, calls |-> 0,
     results |-> <<>>, ret |-> 0]

InitIo ==
    /\ connected = EstablishedConn.c.connected
    /\ sockOpen = EstablishedConn.c.sockOpen
    /\ config = EstablishedConn.c.config
    /\ parserVer = EstablishedConn.c.parserVer
    /\ inWire = EstablishedConn.io.rest
    /\ diag = EstablishedConn.diag
    /\ last = IoIdle
    /\ session = TRUE
    /\ inflight = <<>>

\* Send and Receive call the loops only on a Connected connection.
Begin(op) ==
    /\ connected
    /\ last.pc # "loop"
    /\ \E len \in 0..MaxBuffer :
        last' = [IoIdle EXCEPT !.op = op, !.pc = "loop", !.len = len]
    /\ UNCHANGED <<connected, sockOpen, config, parserVer, inWire, diag, session, inflight>>

BeginSendAll == Begin("SendAll")

BeginReceiveAll == Begin("ReceiveAll")

\* One step of a loop: the call goes on as l, after Close() where closes holds.
IoStep(l, closes) ==
    /\ last' = l
    /\ connected' = (connected /\ ~closes)
    /\ sockOpen' = (sockOpen /\ ~closes)
    /\ session' = (session /\ ~closes)
    /\ UNCHANGED <<config, parserVer, inWire, diag, inflight>>

Called(l, res) == [l EXCEPT !.calls = @ + 1, !.results = Append(@, res)]

Returned(l, ret) == [l EXCEPT !.pc = "returned", !.ret = ret]

\* Lines 226-237: socket.Send returned res.
SendAllCall_RetriesOnZero(l, res) ==
    IF res < 0 \/ l.calls > l.len THEN IoStep(Returned(Called(l, res), l.moved), TRUE)
    ELSE IoStep([Called(l, res) EXCEPT !.moved = @ + res], FALSE)

SendAllCall(l, res) ==
    IF res <= 0 THEN IoStep(Returned(Called(l, res), l.moved), TRUE)
    ELSE IoStep([Called(l, res) EXCEPT !.moved = @ + res], FALSE)

\* Lines 224-240: the test of the while loop, then its body or the return.
SendAllStep ==
    /\ last.op = "SendAll" /\ last.pc = "loop"
    /\ IF last.moved = last.len THEN IoStep(Returned(last, last.moved), FALSE)
       ELSE \E res \in SockResults(last.len - last.moved) : SendAllCall(last, res)

\* Lines 288-300: socket.Receive returned res; remain is len - moved.
ReceiveAllCall_ReturnsLen(l, res) ==
    IF res <= 0 THEN IoStep(Returned(Called(l, res), l.len), TRUE)
    ELSE IoStep([Called(l, res) EXCEPT !.moved = @ + res], FALSE)

ReceiveAllCall(l, res) ==
    IF res <= 0 THEN IoStep(Returned(Called(l, res), l.moved), TRUE)
    ELSE IoStep([Called(l, res) EXCEPT !.moved = @ + res], FALSE)

\* Lines 286-303.
ReceiveAllStep ==
    /\ last.op = "ReceiveAll" /\ last.pc = "loop"
    /\ IF last.len - last.moved = 0 THEN IoStep(Returned(last, last.len), FALSE)
       ELSE \E res \in SockResults(last.len - last.moved) : ReceiveAllCall(last, res)

NextIo == BeginSendAll \/ BeginReceiveAll \/ SendAllStep \/ ReceiveAllStep

SpecIo == InitIo /\ [][NextIo]_vars

\* The loops run in the calling thread and every socket call returns, so a loop
\* that can take a step takes it.
SpecIoLive == SpecIo /\ WF_vars(SendAllStep) /\ WF_vars(ReceiveAllStep)

-----------------------------------------------------------------------------
\* Send over the whole range of its size_t argument, on lengths alone and at a
\* reduced width: int32_t and int have IntBits bits, size_t SizeBits bits.
\* Unsigned arithmetic wraps; a conversion to int32_t keeps the low bits.

SizeBits == IntBits + 1

SizeMax == 2^SizeBits - 1

IntMax == 2^(IntBits - 1) - 1

\* size_t arithmetic
ToSize(v) == v % 2^SizeBits

\* static_cast<int32_t>
ToInt(v) ==
    IF v % 2^IntBits > IntMax THEN (v % 2^IntBits) - 2^IntBits ELSE v % 2^IntBits

\* Line 202
NewLen(len) == ToInt(ToSize(len + HeaderSize))

\* Lines 208-210: the header is written to the first four bytes of a buffer of
\* newLen bytes and len bytes are copied behind it; both writes stay inside the
\* buffer only if it has room for them.
WritesPastBuffer(len, newLen) == newLen < HeaderSize \/ len > newLen - HeaderSize

\* Send did not get to SendAll.
NothingBuilt(exc) ==
    [exc |-> exc, closed |-> FALSE, sends |-> 0, sentBytes |-> 0, built |-> FALSE,
     bufLen |-> 0, hdrLen |-> 0]

\* Lines 212-215: SendAll was given the buffer of newLen bytes and returned r.
BufferSent(len, newLen, r) ==
    [exc |-> IF r.ret # ToSize(len + HeaderSize) THEN "S08S01_LINK_FAILURE" ELSE "none",
     closed |-> r.closed, sends |-> r.calls, sentBytes |-> r.ret, built |-> TRUE,
     bufLen |-> newLen, hdrLen |-> ToInt(len)]

\* Lines 204-215. A FixedSizeArray of negative length cannot be allocated: the
\* new-expression throws. Writing past the end of the buffer is undefined: the
\* process dies in the write, or (survives) the writes land and Send goes on.
SendBuilt(len, newLen, survives, script) ==
    IF newLen < 0 THEN NothingBuilt("bad_alloc")
    ELSE IF WritesPastBuffer(len, newLen) /\ ~survives THEN NothingBuilt("crash")
    ELSE BufferSent(len, newLen, SendAllFrom(newLen, 0, script, 0))

\* Connection::Send(data, len) for a payload of len bytes.
SendOfLength(isConnected, len, survives, script) ==
    IF ~isConnected THEN NothingBuilt("S08003_NOT_CONNECTED")
    ELSE SendBuilt(len, NewLen(len), survives, script)

InitWidth ==
    /\ connected = EstablishedConn.c.connected
    /\ sockOpen = EstablishedConn.c.sockOpen
    /\ config = EstablishedConn.c.config
    /\ parserVer = EstablishedConn.c.parserVer
    /\ inWire = EstablishedConn.io.rest
    /\ diag = EstablishedConn.diag
    /\ last = [op |-> "Establish", len |-> 0, res |-> "AI_SUCCESS", closed |-> FALSE,
               sends |-> 0, sentBytes |-> 0, built |-> FALSE, bufLen |-> 0, hdrLen |-> 0]
    /\ session = TRUE
    /\ inflight = <<>>

SentOfLength(len, s) ==
    /\ SetConn(IF s.closed THEN Close(Conn) ELSE Conn)
    /\ last' = [op |-> "Send", len |-> len, res |-> s.exc, closed |-> s.closed,
                sends |-> s.sends, sentBytes |-> s.sentBytes, built |-> s.built,
                bufLen |-> s.bufLen, hdrLen |-> s.hdrLen]
    /\ session' = IF s.closed THEN FALSE ELSE session
    /\ UNCHANGED <<inWire, diag, inflight>>

\* The socket takes the whole buffer in one call or fails its first call.
BufferScripts(len) ==
    IF sockOpen /\ NewLen(len) >= 0
    THEN SockScripts(NewLen(len), NewLen(len), "whole")
    ELSE ClosedSocketScripts

Survivals(len) ==
    IF NewLen(len) >= 0 /\ WritesPastBuffer(len, NewLen(len)) THEN BOOLEAN ELSE {TRUE}

CallSendOfLength ==
    /\ last.res # "crash"
    /\ \E len \in 0..SizeMax : \E survives \in Survivals(len) :
        \E script \in BufferScripts(len) :
            SentOfLength(len, SendOfLength(connected, len, survives, script))

NextWidth == CallSendOfLength

SpecWidth == InitWidth /\ [][NextWidth]_vars

-----------------------------------------------------------------------------
\* Properties.

NoSocketTraffic(l) ==
    l.sends = 0 /\ l.sentBytes = 0 /\ l.hdrRecvs = 0 /\ l.bodyRecvs = 0

\* Establish(cfg), as opposed to Establish(connectStr) with an unparsable string.
EstablishedWithConfig(l) == l.op = "Establish" /\ l.path # "parseError"

\* C1: Establish(config) on a Connected connection fails with an AlreadyConnected
\* record, makes no socket call and leaves the connected flag, the socket, the
\* active protocol version and the stored configuration as they were.
C1_EstablishWhileConnectedChangesNothing ==
    [][(connected /\ EstablishedWithConfig(last'))
        => /\ last'.res = "AI_ERROR"
           /\ diag' = <<"S08002_ALREADY_CONNECTED">>
           /\ NoSocketTraffic(last')
           /\ connected' = connected
           /\ sockOpen' = sockOpen
           /\ parserVer' = parserVer
           /\ inWire' = inWire
           /\ config' = config]_vars

\* C2 as stated: after a positive length was read and the body came up short,
\* the connection is closed, Receive fails with LinkFailure and the caller's
\* vector holds none of the bytes received.
C2_PartialBodyDiscarded ==
    (last.op = "Receive" /\ last.hdrRead /\ last.hdrLen > 0 /\ last.bodyRet < last.hdrLen)
        => /\ ~connected
           /\ last.res = "S08S01_LINK_FAILURE"
           /\ last.msg = <<>>

\* C2 amended: after a positive length was read and the body came up short, the
\* connection is closed, Receive fails with LinkFailure and the caller's vector
\* holds exactly the body bytes that were received before the failure.
C2_PartialBodyKept ==
    [][(last'.op = "Receive" /\ last'.hdrRead /\ last'.hdrLen > 0
            /\ last'.bodyRet < last'.hdrLen)
        => /\ ~connected'
           /\ ~sockOpen'
           /\ last'.res = "S08S01_LINK_FAILURE"
           /\ Len(last'.msg) = last'.bodyRet
           /\ last'.msg = SubSeq(inWire, HeaderSize + 1, HeaderSize + last'.bodyRet)]_vars

C2_Witness ==
    /\ last.op = "Receive" /\ last.hdrRead /\ last.hdrLen = 2 /\ last.bodyRet = 1
    /\ last.msg = <<7>> /\ last.res = "S08S01_LINK_FAILURE" /\ ~connected

\* C3: between calls the connected flag is true only if an Establish returned
\* success and no Close() (Release, or the close after an I/O failure) has run
\* since; the socket is then open.
C3_ConnectedOnlyInSession == connected => (session /\ sockOpen)

C3_Witness ==
    connected /\ session /\ last.op = "Receive" /\ last.res = "none"

\* C4: an Establish on a Disconnected connection returns success, leaving it
\* Connected with the negotiated version stored, exactly when the socket
\* connected and the handshake was accepted; a failed connect records
\* CannotConnect with no send or receive and leaves it Disconnected; every
\* handshake rejection or error returns failure with the socket closed and the
\* connection Disconnected.
C4_EstablishOutcome ==
    [][(~connected /\ EstablishedWithConfig(last'))
        => /\ last'.res \in {"AI_SUCCESS", "AI_ERROR"}
           /\ (last'.res = "AI_SUCCESS") <=> (last'.path = "accepted")
           /\ (last'.res = "AI_SUCCESS") <=> connected'
           /\ connected' <=> sockOpen'
           /\ connected' => (parserVer' = config'.ver /\ diag' = <<>>)
           /\ (last'.path = "connectFailed")
                => (diag' = <<"S08001_CANNOT_CONNECT">> /\ NoSocketTraffic(last'))
           /\ last'.path \in {"accepted", "connectFailed", "invalidConfig",
                              "unsupported", "ioError", "decodeError", "rejected"}]_vars

C4_Witness ==
    /\ last.op = "Establish" /\ last.path = "accepted" /\ last.res = "AI_SUCCESS"
    /\ connected /\ parserVer = "2.1.0" /\ last.sends = 2 /\ last.hdrRecvs = 2

\* C5: an Establish whose socket connected and whose configuration asks for a
\* protocol version outside the supported set fails with
\* InvalidConnectionStringAttribute without any socket send or receive.
C5_UnsupportedVersionSendsNothing ==
    (last.op = "Establish" /\ ~IsSupported(config.ver)
        /\ last.path \notin {"parseError", "alreadyConnected", "connectFailed"})
        => /\ last.res = "AI_ERROR"
           /\ diag = <<"S01S00_INVALID_CONNECTION_STRING_ATTRIBUTE">>
           /\ NoSocketTraffic(last)
           /\ ~connected

C5_Witness ==
    /\ last.op = "Establish" /\ last.path = "unsupported" /\ config.ver = "1.6.0"
    /\ diag = <<"S01S00_INVALID_CONNECTION_STRING_ATTRIBUTE">>

\* C6: when Receive has read a whole header holding a negative length, the
\* connection is closed, Receive fails with LinkFailure, no body read is
\* attempted and the connected flag is false.
C6_NegativeLengthCloses ==
    (last.op = "Receive" /\ last.hdrRead /\ last.hdrLen < 0)
        => /\ ~connected
           /\ ~sockOpen
           /\ last.res = "S08S01_LINK_FAILURE"
           /\ last.bodyRecvs = 0

C6_Witness ==
    last.op = "Receive" /\ last.hdrRead /\ last.hdrLen = -1 /\ last.hdrRecvs = 2

\* C7: a Send during which the socket accepted less than header plus payload
\* closes the connection and fails with LinkFailure; from then on, as long as no
\* Establish is called, the connection stays closed and every Send fails with
\* NotConnected.
C7_ShortWriteCloses ==
    [][/\ (connected /\ last'.op = "Send" /\ last'.sentBytes < HeaderSize + last'.len)
            => (~connected' /\ ~sockOpen' /\ last'.res = "S08S01_LINK_FAILURE")
       /\ (~connected /\ last'.op # "Establish") => ~connected'
       /\ (~connected /\ last'.op = "Send")
            => (last'.res = "S08003_NOT_CONNECTED" /\ last'.sends = 0)]_vars

C7_Witness ==
    /\ last.op = "Send" /\ last.res = "S08S01_LINK_FAILURE" /\ ~connected
    /\ last.sends = 2 /\ last.sentBytes = 1 /\ last.len = 2

\* C8: over a loopback peer, a Receive that the socket does not fail returns
\* exactly the payload of the oldest frame sent, and takes exactly its header and
\* payload bytes off the stream, whatever the payload (the empty one included)
\* and however the socket split the transfers.
C8_FramingRoundTrip ==
    [][(connected /\ inflight # <<>> /\ last'.op = "Receive")
        => /\ connected' <=> (last'.res = "none")
           /\ (last'.res = "none")
                => /\ last'.msg = Head(inflight)
                   /\ inWire' = SubSeq(inWire, HeaderSize + Len(Head(inflight)) + 1,
                                       Len(inWire))
                   /\ inflight' = Tail(inflight)]_vars

C8_Witness ==
    /\ last.op = "Receive" /\ last.res = "none" /\ last.msg = <<255, 7>>
    /\ last.hdrRecvs = 3 /\ last.bodyRecvs = 2 /\ inflight = << <<>> >>

\* C9 as stated: the active protocol version is set only by an Establish whose
\* handshake was accepted, and once set it never changes again.
C9_VersionNeverChangesOnceSet ==
    [][/\ (parserVer' # parserVer)
            => (last'.op = "Establish" /\ last'.res = "AI_SUCCESS")
       /\ (parserVer # "unset") => (parserVer' = parserVer)]_vars

\* C9 amended: the active protocol version changes only in an Establish whose
\* handshake was accepted, which sets it to the version of that Establish's
\* configuration; a failed Establish, Release, Send, Receive and the other calls
\* leave it as it was.
C9_VersionChangesOnlyOnAcceptedHandshake ==
    [][/\ (parserVer' # parserVer)
            => (~connected /\ EstablishedWithConfig(last') /\ last'.res = "AI_SUCCESS"
                /\ last'.path = "accepted" /\ connected')
       /\ (EstablishedWithConfig(last') /\ last'.res = "AI_SUCCESS")
            => parserVer' = config'.ver
       /\ (last'.op = "Establish" /\ last'.res # "AI_SUCCESS")
            => parserVer' = parserVer]_vars

C9_Witness ==
    /\ parserVer = "2.1.0" /\ config.ver = "2.1.5" /\ ~connected
    /\ last.op = "Establish" /\ last.path = "rejected"

\* C10: Send and Receive on a Disconnected connection fail with NotConnected,
\* make no socket call and change neither the connection nor the caller's vector.
C10_NotConnectedIsInert ==
    [][(~connected /\ last'.op \in {"Send", "Receive"})
        => /\ last'.res = "S08003_NOT_CONNECTED"
           /\ NoSocketTraffic(last')
           /\ last'.msg = last'.msg0
           /\ UNCHANGED <<connected, sockOpen, config, parserVer, inWire, diag>>]_vars

C10_Witness ==
    /\ last.op = "Receive" /\ last.res = "S08003_NOT_CONNECTED" /\ last.msg = <<7>>
    /\ ~connected /\ parserVer # "unset"

\* The socket failed the call recorded in l: a send took less than the frame, a
\* header or body read came up short, or the header read held a negative length.
FrameNotSent(l, payloadLen) == l.sentBytes < HeaderSize + payloadLen

FrameNotReceived(l) == ~l.hdrRead \/ l.hdrLen < 0 \/ l.bodyRet < l.hdrLen

\* C11: a Send, Receive or handshake exchange that met an I/O failure (short
\* send, short header or body read, negative length) returns with the socket
\* closed and the connection Disconnected; and the only step that takes a
\* Disconnected connection to Connected is an Establish that returns success.
C11_IoFailureClosesUntilEstablish ==
    [][/\ (connected /\ last'.op = "Send" /\ FrameNotSent(last', last'.len))
            => (~connected' /\ ~sockOpen' /\ last'.res = "S08S01_LINK_FAILURE")
       /\ (connected /\ last'.op = "Receive" /\ FrameNotReceived(last'))
            => (~connected' /\ ~sockOpen' /\ last'.res = "S08S01_LINK_FAILURE")
       /\ (last'.op = "Establish" /\ last'.sends > 0
                /\ (FrameNotSent(last', 1) \/ FrameNotReceived(last')))
            => (~connected' /\ ~sockOpen' /\ last'.res = "AI_ERROR")
       /\ (~connected /\ connected')
            => (EstablishedWithConfig(last') /\ last'.res = "AI_SUCCESS")]_vars

C11_Witness ==
    /\ last.op = "Receive" /\ ~last.hdrRead /\ last.hdrRecvs = 2
    /\ last.res = "S08S01_LINK_FAILURE" /\ ~connected /\ ~sockOpen

\* C12: Release returns success exactly when the connection was Connected, and
\* then has closed the socket; on a Disconnected connection it fails with a
\* NotConnected record and changes nothing else. The connection is Disconnected
\* after every Release, and a Release that follows a Release fails.
C12_ReleaseOnlyWhenConnected ==
    [][(last'.op = "Release")
        => /\ (last'.res = "AI_SUCCESS") <=> connected
           /\ ~connected' /\ ~sockOpen'
           /\ connected => diag' = <<>>
           /\ ~connected
                => /\ last'.res = "AI_ERROR"
                   /\ diag' = <<"S08003_NOT_CONNECTED">>
                   /\ UNCHANGED <<sockOpen, config, parserVer, inWire>>
           /\ (last.op = "Release")
                => (last'.res = "AI_ERROR" /\ diag' = <<"S08003_NOT_CONNECTED">>)]_vars

C12_Witness ==
    /\ last.op = "Release" /\ last.res = "AI_SUCCESS" /\ ~connected /\ ~sockOpen
    /\ parserVer = "2.1.0" /\ diag = <<>>

\* C13: a Receive that read a whole header holding length 0 returns normally
\* with an empty vector, makes no socket receive after the header, takes exactly
\* the header bytes off the stream and leaves the connection Connected.
C13_ZeroLengthFrame ==
    [][(last'.op = "Receive" /\ last'.hdrRead /\ last'.hdrLen = 0)
        => /\ last'.res = "none"
           /\ last'.msg = <<>>
           /\ last'.bodyRecvs = 0
           /\ inWire' = SubSeq(inWire, HeaderSize + 1, Len(inWire))
           /\ connected' /\ sockOpen']_vars

C13_Witness ==
    /\ last.op = "Receive" /\ last.hdrRead /\ last.hdrLen = 0 /\ last.hdrRecvs = 2
    /\ last.msg0 = <<7>> /\ last.msg = <<>> /\ last.res = "none" /\ connected

\* The status records each public call can add.
RecordsOf(op) ==
    CASE op = "Establish" ->
            {"SHY000_GENERAL_ERROR", "S08002_ALREADY_CONNECTED", "S08001_CANNOT_CONNECT",
             "S01S00_INVALID_CONNECTION_STRING_ATTRIBUTE", "S08S01_LINK_FAILURE",
             "S08004_CONNECTION_REJECTED"}
      [] op = "Release" -> {"S08003_NOT_CONNECTED"}
      [] op = "GetInfo" -> {"SHYC00_OPTIONAL_FEATURE_NOT_IMPLEMENTED"}
      [] op = "GetAttribute" ->
            {"SHY000_GENERAL_ERROR", "SHYC00_OPTIONAL_FEATURE_NOT_IMPLEMENTED"}
      [] op = "SetAttribute" ->
            {"SHY092_OPTION_TYPE_OUT_OF_RANGE", "SHYC00_OPTIONAL_FEATURE_NOT_IMPLEMENTED"}
      [] op = "TransactionCommit" -> {}
      [] op = "TransactionRollback" -> {"SHYC00_OPTIONAL_FEATURE_NOT_IMPLEMENTED"}
      [] op = "CreateStatement" -> {"SHY001_MEMORY_ALLOCATION"}

PublicOps ==
    {"Establish", "Release", "GetInfo", "GetAttribute", "SetAttribute",
     "TransactionCommit", "TransactionRollback", "CreateStatement"}

\* C14: after each public call the diagnostic records are those of that call
\* alone, whatever records were there before: none when it returned success,
\* and one or more, all of them ones this call adds, when it returned an error.
C14_DiagnosticsOfThisCallOnly ==
    [][(last'.op \in PublicOps)
        => /\ last'.res \in {"AI_SUCCESS", "AI_ERROR"}
           /\ (last'.res = "AI_SUCCESS") => diag' = <<>>
           /\ (last'.res = "AI_ERROR") => Len(diag') >= 1
           /\ \A i \in 1..Len(diag') : diag'[i] \in RecordsOf(last'.op)]_vars

C14_Witness ==
    /\ last.op = "TransactionCommit" /\ last.res = "AI_SUCCESS" /\ diag = <<>>
    /\ ~connected /\ parserVer = "2.1.5"

\* The handshake of the Establish recorded in l received a whole response that
\* decodes to a rejection.
ResponseRejects(l) ==
    /\ l.op = "Establish" /\ l.sends > 0 /\ ~FrameNotSent(l, 1) /\ ~FrameNotReceived(l)
    /\ Len(l.msg) >= 2 /\ l.msg[1] # 1

\* C15: when the handshake response is a rejection, Establish returns an error
\* with one ConnectionRejected record whose message holds the node's error text
\* where it is not empty, the node's version and the protocol version of the
\* configuration this Establish was given; the connection is then Disconnected.
C15_RejectionMessage ==
    ResponseRejects(last)
        => /\ last.res = "AI_ERROR"
           /\ diag = <<"S08004_CONNECTION_REJECTED">>
           /\ last.text.hasInfo <=> (Len(last.msg) > 2)
           /\ last.text.info = SubSeq(last.msg, 3, Len(last.msg))
           /\ last.text.nodeVer = last.msg[2]
           /\ last.text.driverVer = config.ver
           /\ ~connected /\ ~sockOpen

C15_Witness ==
    /\ ResponseRejects(last) /\ last.text.hasInfo /\ last.text.info = <<9>>
    /\ last.text.nodeVer = 3 /\ last.text.driverVer = "2.1.0" /\ parserVer = "2.1.5"

\* C16: an Establish whose handshake exchange met an I/O failure leaves exactly
\* one record, with the LinkFailure code the failure carried; one whose response
\* arrived whole and could not be decoded leaves exactly one ConnectionRejected
\* record; both return an error.
C16_ExchangeErrorRecord ==
    (last.op = "Establish" /\ last.sends > 0)
        => /\ (FrameNotSent(last, 1) \/ FrameNotReceived(last))
                => (last.res = "AI_ERROR" /\ diag = <<"S08S01_LINK_FAILURE">>)
           /\ (~FrameNotSent(last, 1) /\ ~FrameNotReceived(last)
                    /\ ~DecodeHandshakeResponse(last.msg).decoded)
                => (last.res = "AI_ERROR" /\ diag = <<"S08004_CONNECTION_REJECTED">>)

C16_Witness ==
    /\ last.op = "Establish" /\ last.sends = 1 /\ last.hdrRead /\ last.hdrLen = 2
    /\ last.bodyRet = 1 /\ diag = <<"S08S01_LINK_FAILURE">> /\ ~connected

\* C17: SetAttribute on the liveness attribute returns an error with an
\* OptionTypeOutOfRange record and changes nothing of the connection;
\* GetAttribute on it, given a buffer, succeeds and writes "not dead" exactly
\* when the connection is Connected, and changes nothing of the connection.
C17_LivenessAttribute ==
    [][/\ (last'.op = "SetAttribute" /\ last'.path = "SQL_ATTR_CONNECTION_DEAD")
            => /\ last'.res = "AI_ERROR"
               /\ diag' = <<"SHY092_OPTION_TYPE_OUT_OF_RANGE">>
               /\ UNCHANGED <<connected, sockOpen, config, parserVer, inWire>>
       /\ (last'.op = "GetAttribute" /\ last'.path = "SQL_ATTR_CONNECTION_DEAD"
                /\ last'.len = 1)
            => /\ last'.res = "AI_SUCCESS"
               /\ last'.val \in {"SQL_CD_FALSE", "SQL_CD_TRUE"}
               /\ (last'.val = "SQL_CD_FALSE") <=> connected
               /\ UNCHANGED <<connected, sockOpen, config, parserVer, inWire>>]_vars

C17_Witness ==
    /\ last.op = "GetAttribute" /\ last.path = "SQL_ATTR_CONNECTION_DEAD"
    /\ last.len = 1 /\ last.val = "SQL_CD_TRUE" /\ ~connected /\ parserVer # "unset"

RECURSIVE SumPositive(_)
SumPositive(results) ==
    IF results = <<>> THEN 0
    ELSE (IF Head(results) > 0 THEN Head(results) ELSE 0) + SumPositive(Tail(results))

Failed(results) == \E i \in 1..Len(results) : results[i] <= 0

\* What the loop, run as one call over the results the socket gave, returns.
WholeCall(l) ==
    IF l.op = "SendAll" THEN SendAllFrom(l.len, 0, l.results, 0)
    ELSE ReceiveAllFrom(l.len, l.len, l.results, 0)

\* C18: SendAll and ReceiveAll return the sum of the positive results of the
\* socket calls they made. Where no call gave zero or an error that is the
\* buffer length and the connection is as it was; otherwise it is less than the
\* buffer length, the failed call was the last one made and the connection is
\* closed.
C18_ReturnedCount ==
    (last.pc = "returned")
        => /\ last.calls = Len(last.results)
           /\ last.ret = SumPositive(last.results)
           /\ ~Failed(last.results) => (last.ret = last.len /\ connected /\ sockOpen)
           /\ Failed(last.results)
                => /\ last.ret < last.len
                   /\ last.results[Len(last.results)] <= 0
                   /\ ~Failed(SubSeq(last.results, 1, Len(last.results) - 1))
                   /\ ~connected /\ ~sockOpen
           /\ WholeCall(last)
                = [ret |-> last.ret, closed |-> ~connected, calls |-> last.calls]

C18_Witness ==
    /\ last.pc = "returned" /\ last.op = "ReceiveAll" /\ last.len = 4
    /\ last.results = <<1, 2, 0>> /\ last.ret = 3 /\ ~connected

\* C19: a loop over a buffer of len bytes makes at most len socket calls (none
\* for an empty buffer) and then returns, either having moved the whole buffer
\* or with the connection closed.
C19_LoopsTerminate ==
    /\ [](last.calls <= last.len)
    /\ (last.pc = "loop")
            ~> (last.pc = "returned" /\ (last.ret = last.len \/ ~connected))

C19_Witness ==
    /\ last.pc = "returned" /\ last.op = "SendAll" /\ last.len = 4 /\ last.calls = 4
    /\ last.results = <<1, 1, 1, -1>> /\ ~connected

\* C20: whatever the payload length, either the buffer Send hands to the socket
\* begins with a whole header whose length is not negative and equals the
\* number of payload bytes behind it, or Send fails and no byte was written.
C20_HeaderWellFormed ==
    (last.op = "Send")
        => \/ /\ last.built
              /\ last.bufLen >= HeaderSize
              /\ last.hdrLen >= 0
              /\ last.hdrLen = last.bufLen - HeaderSize
           \/ /\ last.res # "none"
              /\ last.sentBytes = 0

====
